---- MODULE Spec2Model ----
(***************************************************************************)
(* State-machine model of src/src/App.jsx, the S3ImageViewer component.    *)
(* The file holds two revisions of the component: revision 1 (lines 6-451) *)
(* and revision 2 (lines 477-873).  The variable rev fixes which of the    *)
(* two is running; every operation is translated from the revision's own   *)
(* code.  Time is counted in milliseconds from a local midnight, so that   *)
(* local midnight of the current day is now - (now % DayMs).               *)
(***************************************************************************)
EXTENDS Integers, Sequences, FiniteSets, Bags, TLC

VARIABLES
    rev,                \* which revision of the component is running (1 or 2)
    mounted,            \* the mount effect has run
    images,             \* useState([])      : sequence of image records
    selectedImage,      \* useState(null)    : an image record or NoImage
    sortBy,             \* useState('newest')
    filterDate,         \* useState('all')
    isLoading,          \* useState(true)
    error,              \* useState(null)
    stats,              \* useState({lastHour: 0, today: 0, total: 0})
    refreshIntervalSec, \* useState(30); revision 1 has no such state and the
                        \* variable keeps the period of its one timer
    timers,             \* periods (ms) of the interval timers now installed
    cycles,             \* bag of loadImagesFromS3 calls awaiting the gateway
    deletes,            \* bag of handleDelete calls awaiting the gateway
    alertMsg,           \* the alert() dialog now on screen, or NoAlert
    bulkDelete,         \* the bulk delete of the later revisions: whether one is
                        \* running, the records it has still to delete and its
                        \* running count
    now                 \* Date.now()

vars == <<rev, mounted, images, selectedImage, sortBy, filterDate, isLoading,
          error, stats, refreshIntervalSec, timers, cycles, deletes, alertMsg,
          bulkDelete, now>>

viewVars == <<sortBy, filterDate>>

----------------------------------------------------------------------------
(* Bounds of the model *)

\* calls (sync cycles and deletes together) awaiting the gateway at one time
MaxInFlight == 2
\* number of times the clock advances
MaxClock == 1

----------------------------------------------------------------------------
(* Time *)

HourMs == 60 * 60 * 1000
DayMs == 24 * 60 * 60 * 1000
WeekMs == 7 * 24 * 60 * 60 * 1000
MonthMs == 30 * 24 * 60 * 60 * 1000

\* the mount timer of revision 1
MountTimerMs == 5 * 60 * 1000

\* new Date().setHours(0, 0, 0, 0)
TodayStart(t) == t - (t % DayMs)

\* the component starts at 02:00 of the second day; the clock moves in
\* half hours
ClockStart == DayMs + 2 * HourMs
ClockStep == HourMs \div 2
Instants == {ClockStart + k * ClockStep : k \in 0..MaxClock}

----------------------------------------------------------------------------
(* Absent values *)

NoError == "null"
NoAlert == "none"
NoImage == [id |-> <<>>]

LoadErrorMsg == "load failed"
DeleteAlertMsg == "delete failed"

ZeroStats == [lastHour |-> 0, today |-> 0, total |-> 0]

\* no bulk delete is running
NoBulk == [deleting |-> FALSE, queue |-> <<>>, deleted |-> 0]

----------------------------------------------------------------------------
(* Strings: an object key is a tuple of characters *)

UpperChars == <<"A", "B", "C", "D", "E", "F", "G", "H", "I", "J", "K", "L", "M",
                "N", "O", "P", "Q", "R", "S", "T", "U", "V", "W", "X", "Y", "Z">>
LowerChars == <<"a", "b", "c", "d", "e", "f", "g", "h", "i", "j", "k", "l", "m",
                "n", "o", "p", "q", "r", "s", "t", "u", "v", "w", "x", "y", "z">>

\* the lower-case letter of each upper-case letter
LowerOf == [u \in {UpperChars[i] : i \in DOMAIN UpperChars} |->
               LowerChars[CHOOSE i \in DOMAIN UpperChars : UpperChars[i] = u]]

ToLowerChar(c) == IF c \in DOMAIN LowerOf THEN LowerOf[c] ELSE c

\* String.prototype.toLowerCase
ToLowerCase(s) == [i \in DOMAIN s |-> ToLowerChar(s[i])]

\* String.prototype.endsWith
EndsWith(s, suffix) ==
    /\ Len(suffix) <= Len(s)
    /\ SubSeq(s, Len(s) - Len(suffix) + 1, Len(s)) = suffix

DotJpg == <<".", "j", "p", "g">>
DotJpeg == <<".", "j", "p", "e", "g">>

\* key.split('/').pop(): what follows the last '/'
LastSegment(s) ==
    LET slashes == {i \in DOMAIN s : s[i] = "/"}
    IN  IF slashes = {} THEN s
        ELSE SubSeq(s, (CHOOSE i \in slashes : \A j \in slashes : j <= i) + 1, Len(s))

----------------------------------------------------------------------------
(* formatFileSize: a number of tenths and a unit *)

\* (x / unit).toFixed(1), in tenths, rounded to nearest
ToFixed1(x, unit) == (x * 10 + unit \div 2) \div unit

FormatFileSize(bytes) ==
    IF bytes < 1024 THEN <<bytes, "B">>
    ELSE IF bytes < 1024 * 1024 THEN <<ToFixed1(bytes, 1024), "KB">>
    ELSE <<ToFixed1(bytes, 1024 * 1024), "MB">>

----------------------------------------------------------------------------
(* The bucket: the objects a listing can return, in the gateway's key order *)

KeyA == <<"a", ".", "J", "P", "G">>
KeyB == <<"b", ".", "p", "n", "g">>
KeyC == <<"c", "a", "m", "/", "c", ".", "j", "p", "e", "g">>
KeyD == <<"d">>
KeyE == <<"e", ".", "j", "p", "g", ".", "t", "x", "t">>

\* a.JPG was written at local midnight of the current day, cam/c.jpeg half an
\* hour before the component starts
Catalogue == <<
    [Key |-> KeyA, LastModified |-> DayMs, Size |-> 512],
    [Key |-> KeyB, LastModified |-> DayMs + HourMs, Size |-> 2048],
    [Key |-> KeyC, LastModified |-> ClockStart - ClockStep, Size |-> 1536],
    [Key |-> KeyD, LastModified |-> DayMs - HourMs, Size |-> 0],
    [Key |-> KeyE, LastModified |-> DayMs + HourMs, Size |-> 10]>>

\* the subsequence of seq at the positions idx
RECURSIVE Pick(_, _, _)
Pick(seq, idx, i) ==
    IF i > Len(seq) THEN <<>>
    ELSE (IF i \in idx THEN <<seq[i]>> ELSE <<>>) \o Pick(seq, idx, i + 1)

\* response.Contents of one ListObjectsV2 call over the objects cat
Listings(cat) == {Pick(cat, idx, 1) : idx \in SUBSET DOMAIN cat}

AllListings == Listings(Catalogue)

----------------------------------------------------------------------------
(* Pure parts of loadImagesFromS3 *)

\* IsJpegKey without toLowerCase
IsJpegKey_CaseSensitive(item) ==
    EndsWith(item.Key, DotJpg) \/ EndsWith(item.Key, DotJpeg)

\* the .filter callback
IsJpegKey(item) ==
    LET key == ToLowerCase(item.Key)
    IN  EndsWith(key, DotJpg) \/ EndsWith(key, DotJpeg)

\* response.Contents.filter(...) of each listing
Retained == [l \in AllListings |-> SelectSeq(l, IsJpegKey)]

\* the record the .map callback returns once the URL is signed
ImageRecord(item) ==
    [id        |-> item.Key,
     key       |-> item.Key,
     url       |-> <<"signed", item.Key>>,
     name      |-> LastSegment(item.Key),
     timestamp |-> item.LastModified,
     size      |-> FormatFileSize(item.Size)]

\* Array.prototype.sort: stable; x goes before the first element that the
\* comparator puts after it.  after[<<e, x>>] is compare(e, x) > 0.
RECURSIVE InsertStable(_, _, _)
InsertStable(x, sorted, after) ==
    IF sorted = <<>> THEN <<x>>
    ELSE IF after[<<Head(sorted), x>>] THEN <<x>> \o sorted
    ELSE <<Head(sorted)>> \o InsertStable(x, Tail(sorted), after)

RECURSIVE SortWith(_, _, _)
SortWith(seq, after, acc) ==
    IF seq = <<>> THEN acc
    ELSE SortWith(Tail(seq), after, InsertStable(Head(seq), acc, after))

Range(seq) == {seq[i] : i \in DOMAIN seq}

\* NewestFirst without the sort: the gateway's key order
NewestFirst_KeyOrder(seq) == seq

\* (a, b) => b.timestamp - a.timestamp
NewestFirst(seq) ==
    SortWith(seq, [p \in Range(seq) \X Range(seq) |-> p[2].timestamp - p[1].timestamp > 0], <<>>)

\* (a, b) => a.timestamp - b.timestamp
OldestFirst(seq) ==
    SortWith(seq, [p \in Range(seq) \X Range(seq) |-> p[1].timestamp - p[2].timestamp > 0], <<>>)

Count(seq, Test(_)) == Cardinality({i \in DOMAIN seq : Test(seq[i])})

\* the object passed to setStats
ComputeStats(list, t) ==
    LET oneHourAgo == t - HourMs
        todayStart == TodayStart(t)
        InLastHour(img) == img.timestamp > oneHourAgo
        InToday(img) == img.timestamp > todayStart
    IN  [lastHour |-> Count(list, InLastHour),
         today    |-> Count(list, InToday),
         total    |-> Len(list)]

RECURSIVE MapRecords(_)
MapRecords(items) ==
    IF items = <<>> THEN <<>>
    ELSE <<ImageRecord(Head(items))>> \o MapRecords(Tail(items))

----------------------------------------------------------------------------
(* View Projector: sortImages, filterImages, displayImages *)

\* collation of the characters that occur in names: punctuation, digits, letters
Collation == <<"_", "-", ".", "/", "0", "1", "2", "3", "4", "5", "6", "7", "8", "9">>
                 \o LowerChars

CharRank(c) ==
    LET l == ToLowerChar(c)
    IN  IF \E i \in DOMAIN Collation : Collation[i] = l
        THEN CHOOSE i \in DOMAIN Collation : Collation[i] = l
        ELSE 0

\* a.localeCompare(b) > 0: letters compare without case first, and between
\* names that differ in case alone the lower-case letter comes first
LocaleAfter(a, b) ==
    LET n == IF Len(a) < Len(b) THEN Len(a) ELSE Len(b)
        diff == {i \in 1..n : CharRank(a[i]) # CharRank(b[i])}
        cased == {i \in 1..n : a[i] # b[i]}
        first(S) == CHOOSE i \in S : \A j \in S : i <= j
    IN  IF diff # {} THEN CharRank(a[first(diff)]) > CharRank(b[first(diff)])
        ELSE IF Len(a) # Len(b) THEN Len(a) > Len(b)
        ELSE IF cased # {} THEN ToLowerChar(a[first(cased)]) # a[first(cased)]
        ELSE FALSE

\* (a, b) => a.name.localeCompare(b.name)
ByName(seq) ==
    SortWith(seq, [p \in Range(seq) \X Range(seq) |-> LocaleAfter(p[1].name, p[2].name)], <<>>)

sortImages(r, by, imgs) ==
    IF r = 1
    THEN CASE by = "newest" -> NewestFirst(imgs)
           [] by = "oldest" -> OldestFirst(imgs)
           [] by = "name" -> ByName(imgs)
           [] OTHER -> imgs
    ELSE imgs

filterImages(r, f, t, imgs) ==
    IF r = 1
    THEN IF f = "all" THEN imgs
         ELSE LET Keep(img) ==
                      LET diff == t - img.timestamp
                      IN  CASE f = "today" -> diff < DayMs
                            [] f = "week" -> diff < WeekMs
                            [] f = "month" -> diff < MonthMs
                            [] OTHER -> TRUE
              IN  SelectSeq(imgs, Keep)
    ELSE imgs

displayImages == sortImages(rev, sortBy, filterImages(rev, filterDate, now, images))

\* which of the three returns of the render function is on screen
Screen ==
    IF isLoading /\ Len(images) = 0 THEN "loading"
    ELSE IF error # NoError THEN "error"
    ELSE "gallery"

SortOptions == {"newest", "oldest", "name"}
FilterOptions == {"all", "today", "week", "month"}
StatTiles == {"lastHour", "today", "all"}
IntervalOptions == {0, 5, 10, 15, 30, 60, 300}

----------------------------------------------------------------------------
(* Initial state: the useState initial values, before the mount effect *)

Init ==
    /\ rev \in {1, 2}
    /\ mounted = FALSE
    /\ images = <<>>
    /\ selectedImage = NoImage
    /\ sortBy = "newest"
    /\ filterDate = "all"
    /\ isLoading = TRUE
    /\ error = NoError
    /\ stats = ZeroStats
    /\ refreshIntervalSec = IF rev = 2 THEN 30 ELSE MountTimerMs \div 1000
    /\ timers = {}
    /\ cycles = EmptyBag
    /\ deletes = EmptyBag
    /\ alertMsg = NoAlert
    /\ bulkDelete = NoBulk
    /\ now = ClockStart

----------------------------------------------------------------------------
(* Synchronizer: loadImagesFromS3 and its triggers *)

InFlight == BagCardinality(cycles) + BagCardinality(deletes)

ListingCycle == [phase |-> "listing", items |-> <<>>]
SigningCycle(items) == [phase |-> "signing", items |-> items]

\* a handler runs only while no alert() dialog blocks the page
Running == mounted /\ alertMsg = NoAlert

\* loadImagesFromS3 up to its first await.  Revision 1 sets isLoading itself;
\* in revision 2 the flag is what the caller left (loadingBefore).
LoadImagesFromS3(loadingBefore) ==
    /\ InFlight < MaxInFlight
    /\ isLoading' = (IF rev = 1 THEN TRUE ELSE loadingBefore)
    /\ error' = NoError
    /\ cycles' = cycles (+) SetToBag({ListingCycle})

\* setInterval of the effect: none when the period is 0
EffectTimers(sec) == IF sec * 1000 = 0 THEN {} ELSE {sec * 1000}

\* CleanupTimers with the clearInterval left out
CleanupTimers_Keeps(ts, sec) == ts

\* clearInterval(interval) of the effect's cleanup
CleanupTimers(ts, sec) == ts \ {sec * 1000}

\* the effect on mount
Mount ==
    /\ ~mounted
    /\ mounted' = TRUE
    /\ LoadImagesFromS3(isLoading)
    /\ timers' = (IF rev = 1 THEN {MountTimerMs} ELSE EffectTimers(refreshIntervalSec))
    /\ UNCHANGED <<bulkDelete, rev, images, selectedImage, viewVars, stats, refreshIntervalSec,
                   deletes, alertMsg, now>>

\* Tick with the timer callback returning while the error state is set
Tick_StopsOnError(t) ==
    /\ Running
    /\ t \in timers
    /\ error = NoError
    /\ LoadImagesFromS3(isLoading)
    /\ UNCHANGED <<bulkDelete, rev, mounted, images, selectedImage, viewVars, stats,
                   refreshIntervalSec, timers, deletes, alertMsg, now>>

\* a tick of the installed timer of period t
Tick(t) ==
    /\ Running
    /\ t \in timers
    /\ LoadImagesFromS3(isLoading)
    /\ UNCHANGED <<bulkDelete, rev, mounted, images, selectedImage, viewVars, stats,
                   refreshIntervalSec, timers, deletes, alertMsg, now>>

\* onChange of the interval select (revision 2): the state is set, the effect
\* of the old value is cleaned up and the effect runs again
SetRefreshIntervalSec(v) ==
    /\ Running
    /\ rev = 2
    /\ Screen = "gallery"
    /\ v \in IntervalOptions
    /\ v # refreshIntervalSec
    /\ refreshIntervalSec' = v
    /\ LoadImagesFromS3(isLoading)
    /\ timers' = CleanupTimers(timers, refreshIntervalSec) \cup EffectTimers(v)
    /\ UNCHANGED <<bulkDelete, rev, mounted, images, selectedImage, viewVars, stats, deletes,
                   alertMsg, now>>

\* the refresh button (disabled while loading) and the retry button of the
\* error screen
RefreshImages ==
    /\ Running
    /\ \/ Screen = "error"
       \/ Screen = "gallery" /\ ~isLoading
    /\ LoadImagesFromS3(TRUE)
    /\ UNCHANGED <<bulkDelete, rev, mounted, images, selectedImage, viewVars, stats,
                   refreshIntervalSec, timers, deletes, alertMsg, now>>

\* Fail with the collection and the stats reset in the catch block
Fail_ClearsImages(c) ==
    /\ error' = LoadErrorMsg
    /\ isLoading' = FALSE
    /\ images' = <<>>
    /\ stats' = ZeroStats
    /\ cycles' = cycles (-) SetToBag({c})
    /\ UNCHANGED <<bulkDelete, rev, mounted, selectedImage, viewVars, refreshIntervalSec, timers,
                   deletes, alertMsg, now>>

\* Fail without the finally block
Fail_KeepsLoading(c) ==
    /\ error' = LoadErrorMsg
    /\ cycles' = cycles (-) SetToBag({c})
    /\ UNCHANGED <<bulkDelete, rev, mounted, images, selectedImage, viewVars, stats,
                   isLoading, refreshIntervalSec, timers, deletes, alertMsg, now>>

\* catch: setError(...); finally setIsLoading(false)
Fail(c) ==
    /\ error' = LoadErrorMsg
    /\ isLoading' = FALSE
    /\ cycles' = cycles (-) SetToBag({c})
    /\ UNCHANGED <<bulkDelete, rev, mounted, images, selectedImage, viewVars, stats,
                   refreshIntervalSec, timers, deletes, alertMsg, now>>

\* Publish with setError(null) moved to the successful end of the cycle
Publish_ClearsError(c, list, st) ==
    /\ images' = list
    /\ stats' = st
    /\ isLoading' = FALSE
    /\ error' = NoError
    /\ cycles' = cycles (-) SetToBag({c})
    /\ UNCHANGED <<bulkDelete, rev, mounted, selectedImage, viewVars, refreshIntervalSec, timers,
                   deletes, alertMsg, now>>

\* Publish with the batch merged into the collection instead of replacing it
Publish_Merges(c, list, st) ==
    /\ images' = list \o SelectSeq(images, LAMBDA img : img.id \notin {list[i].id : i \in DOMAIN list})
    /\ stats' = st
    /\ isLoading' = FALSE
    /\ cycles' = cycles (-) SetToBag({c})
    /\ UNCHANGED <<bulkDelete, rev, mounted, selectedImage, viewVars, error,
                   refreshIntervalSec, timers, deletes, alertMsg, now>>

\* setImages(list); setStats(...); finally setIsLoading(false)
Publish(c, list, st) ==
    /\ images' = list
    /\ stats' = st
    /\ isLoading' = FALSE
    /\ cycles' = cycles (-) SetToBag({c})
    /\ UNCHANGED <<bulkDelete, rev, mounted, selectedImage, viewVars, error, refreshIntervalSec,
                   timers, deletes, alertMsg, now>>

\* PublishEmpty with the empty listing taken for a failure
PublishEmpty_AsError(c) == Fail(c)

\* the early return on an empty listing: setImages([]); setStats(zeros); return
PublishEmpty(c) == Publish(c, <<>>, ZeroStats)

\* the listing call resolves with response.Contents = contents
ListResponse(c, contents) ==
    /\ Running
    /\ c \in BagToSet(cycles)
    /\ c.phase = "listing"
    /\ contents \in AllListings
    /\ IF Len(contents) = 0
       THEN PublishEmpty(c)
       ELSE LET retained == Retained[contents]
            IN  IF retained = <<>>
                THEN Publish(c, <<>>, ComputeStats(<<>>, now))
                ELSE /\ cycles' = (cycles (-) SetToBag({c})) (+) SetToBag({SigningCycle(retained)})
                     /\ UNCHANGED <<bulkDelete, rev, mounted, images, selectedImage, viewVars,
                                    isLoading, error, stats, refreshIntervalSec,
                                    timers, deletes, alertMsg, now>>

\* the one ListObjectsV2 call of a cycle resolves with response.  Of the
\* response the code reads Contents alone: IsTruncated and the continuation
\* token are never looked at, and no second call is made.
ListObjectsV2(c, response) == ListResponse(c, response.Contents)

\* the responses of the gateway: a page of objects, and whether the listing
\* goes on after it
Responses == [Contents : AllListings, IsTruncated : BOOLEAN]

\* Promise.all resolves: every getSignedUrl of the batch has resolved
SignAllOk(c) ==
    /\ Running
    /\ c \in BagToSet(cycles)
    /\ c.phase = "signing"
    /\ LET imageList == NewestFirst(MapRecords(c.items))
       IN  Publish(c, imageList, ComputeStats(imageList, now))

\* the listing call rejects
ListFail(c) ==
    /\ Running
    /\ c \in BagToSet(cycles)
    /\ c.phase = "listing"
    /\ Fail(c)

\* getSignedUrl of item i of the batch rejects, and so does Promise.all
SignFail(c, i) ==
    /\ Running
    /\ c \in BagToSet(cycles)
    /\ c.phase = "signing"
    /\ i \in DOMAIN c.items
    /\ Fail(c)

----------------------------------------------------------------------------
(* Mutation Handlers *)

\* the call of handleDelete(img) that awaits the gateway, with the values of
\* images and selectedImage of the render that created the handler and the
\* answer confirm() returned to it
DeleteCall(img, answer) ==
    [img |-> img, images |-> images, selectedImage |-> selectedImage,
     confirmed |-> answer]

\* what the delete buttons of the grid and of the detail view are bound to
Deletable == Range(displayImages) \cup ({selectedImage} \ {NoImage})

\* HandleDelete without the return on a declined confirm()
HandleDelete_NoGate(img, answer) ==
    /\ Running
    /\ Screen = "gallery"
    /\ img \in Deletable
    /\ IF rev = 2
       THEN UNCHANGED vars
       ELSE /\ InFlight < MaxInFlight
            /\ deletes' = deletes (+) SetToBag({DeleteCall(img, answer)})
            /\ UNCHANGED <<bulkDelete, rev, mounted, images, selectedImage, viewVars, isLoading,
                           error, stats, refreshIntervalSec, timers, cycles,
                           alertMsg, now>>

\* a click on a delete button and the answer to confirm().  The body of
\* handleDelete in revision 2 is empty.
HandleDelete(img, answer) ==
    /\ Running
    /\ Screen = "gallery"
    /\ img \in Deletable
    /\ IF rev = 2 \/ ~answer
       THEN UNCHANGED vars
       ELSE /\ InFlight < MaxInFlight
            /\ deletes' = deletes (+) SetToBag({DeleteCall(img, answer)})
            /\ UNCHANGED <<bulkDelete, rev, mounted, images, selectedImage, viewVars, isLoading,
                           error, stats, refreshIntervalSec, timers, cycles,
                           alertMsg, now>>

\* images.filter(i => i.id !== img.id)
WithoutImage(imgs, img) ==
    LET Other(i) == i.id # img.id
    IN  SelectSeq(imgs, Other)

\* if (selectedImage?.id === img.id) setSelectedImage(null)
SelectionAfterDelete(d, current) ==
    IF d.selectedImage.id = d.img.id THEN NoImage ELSE current

\* DeleteOk without the setStats call
DeleteOk_KeepsStats(d) ==
    /\ Running
    /\ d \in BagToSet(deletes)
    /\ images' = WithoutImage(d.images, d.img)
    /\ selectedImage' = SelectionAfterDelete(d, selectedImage)
    /\ deletes' = deletes (-) SetToBag({d})
    /\ UNCHANGED <<bulkDelete, rev, mounted, viewVars, isLoading, error, stats,
                   refreshIntervalSec, timers, cycles, alertMsg, now>>

\* the DeleteObject call resolves
DeleteOk(d) ==
    /\ Running
    /\ d \in BagToSet(deletes)
    /\ LET newImages == WithoutImage(d.images, d.img)
       IN  /\ images' = newImages
           /\ stats' = ComputeStats(newImages, now)
    /\ selectedImage' = SelectionAfterDelete(d, selectedImage)
    /\ deletes' = deletes (-) SetToBag({d})
    /\ UNCHANGED <<bulkDelete, rev, mounted, viewVars, isLoading, error, refreshIntervalSec,
                   timers, cycles, alertMsg, now>>

\* DeleteFail with the failure raised as the global error state
DeleteFail_SetsError(d) ==
    /\ Running
    /\ d \in BagToSet(deletes)
    /\ alertMsg' = DeleteAlertMsg
    /\ error' = DeleteAlertMsg
    /\ deletes' = deletes (-) SetToBag({d})
    /\ UNCHANGED <<bulkDelete, rev, mounted, images, selectedImage, viewVars, isLoading, stats,
                   refreshIntervalSec, timers, cycles, now>>

\* the DeleteObject call rejects: catch, alert(...)
DeleteFail(d) ==
    /\ Running
    /\ d \in BagToSet(deletes)
    /\ alertMsg' = DeleteAlertMsg
    /\ deletes' = deletes (-) SetToBag({d})
    /\ UNCHANGED <<bulkDelete, rev, mounted, images, selectedImage, viewVars, isLoading, error,
                   stats, refreshIntervalSec, timers, cycles, now>>

\* the user closes the alert() dialog
DismissAlert ==
    /\ alertMsg # NoAlert
    /\ alertMsg' = NoAlert
    /\ UNCHANGED <<bulkDelete, rev, mounted, images, selectedImage, viewVars, isLoading, error,
                   stats, refreshIntervalSec, timers, cycles, deletes, now>>

\* a click on a card of the grid
SelectImage(img) ==
    /\ Running
    /\ Screen = "gallery"
    /\ img \in Range(displayImages)
    /\ selectedImage' = img
    /\ UNCHANGED <<bulkDelete, rev, mounted, images, viewVars, isLoading, error, stats,
                   refreshIntervalSec, timers, cycles, deletes, alertMsg, now>>

\* the close button or the backdrop of the detail view
CloseDetail ==
    /\ Running
    /\ Screen = "gallery"
    /\ selectedImage # NoImage
    /\ selectedImage' = NoImage
    /\ UNCHANGED <<bulkDelete, rev, mounted, images, viewVars, isLoading, error, stats,
                   refreshIntervalSec, timers, cycles, deletes, alertMsg, now>>

----------------------------------------------------------------------------
(* View selection *)

\* onChange of the sort select
SetSortBy(v) ==
    /\ Running
    /\ Screen = "gallery"
    /\ v \in SortOptions
    /\ v # sortBy
    /\ sortBy' = v
    /\ UNCHANGED <<bulkDelete, rev, mounted, images, selectedImage, filterDate, isLoading, error,
                   stats, refreshIntervalSec, timers, cycles, deletes, alertMsg, now>>

\* onChange of the filter select (revision 1)
SetFilterDate(v) ==
    /\ Running
    /\ rev = 1
    /\ Screen = "gallery"
    /\ v \in FilterOptions
    /\ v # filterDate
    /\ filterDate' = v
    /\ UNCHANGED <<bulkDelete, rev, mounted, images, selectedImage, sortBy, isLoading, error,
                   stats, refreshIntervalSec, timers, cycles, deletes, alertMsg, now>>

\* a click on a statistics tile (revision 2)
HandleStatClick(f) ==
    /\ Running
    /\ rev = 2
    /\ Screen = "gallery"
    /\ f \in StatTiles
    /\ filterDate' = f
    /\ sortBy' = "newest"
    /\ UNCHANGED <<bulkDelete, rev, mounted, images, selectedImage, isLoading, error, stats,
                   refreshIntervalSec, timers, cycles, deletes, alertMsg, now>>

----------------------------------------------------------------------------
(* The clock *)

AdvanceClock ==
    /\ now + ClockStep \in Instants
    /\ now' = now + ClockStep
    /\ UNCHANGED <<bulkDelete, rev, mounted, images, selectedImage, viewVars, isLoading, error,
                   stats, refreshIntervalSec, timers, cycles, deletes, alertMsg>>

----------------------------------------------------------------------------
(* The component: synchronizer, mutation handlers and detail view *)

Next ==
    \/ Mount
    \/ \E t \in timers : Tick(t)
    \/ \E v \in IntervalOptions : SetRefreshIntervalSec(v)
    \/ RefreshImages
    \/ \E c \in BagToSet(cycles) : \E r \in Responses : ListObjectsV2(c, r)
    \/ \E c \in BagToSet(cycles) : SignAllOk(c)
    \/ \E c \in BagToSet(cycles) : ListFail(c)
    \/ \E c \in BagToSet(cycles) : \E i \in DOMAIN c.items : SignFail(c, i)
    \/ \E img \in Deletable : \E answer \in BOOLEAN : HandleDelete(img, answer)
    \/ \E d \in BagToSet(deletes) : DeleteOk(d)
    \/ \E d \in BagToSet(deletes) : DeleteFail(d)
    \/ DismissAlert
    \/ \E img \in Range(displayImages) : SelectImage(img)
    \/ CloseDetail
    \/ AdvanceClock

Spec == Init /\ [][Next]_vars

\* The scheduling of the page: an installed interval timer fires again and
\* again (it is held back only while an alert() dialog is open), and every
\* call that awaits the gateway is settled, resolved or rejected.
TimerFires == \E t \in timers : Tick(t)

GatewaySettles ==
    \/ \E c \in BagToSet(cycles) : \E r \in Responses : ListObjectsV2(c, r)
    \/ \E c \in BagToSet(cycles) : SignAllOk(c)
    \/ \E c \in BagToSet(cycles) : ListFail(c)
    \/ \E c \in BagToSet(cycles) : \E i \in DOMAIN c.items : SignFail(c, i)
    \/ \E d \in BagToSet(deletes) : DeleteOk(d)
    \/ \E d \in BagToSet(deletes) : DeleteFail(d)

\* the component without the detail view, whose selection no trigger of a
\* sync cycle reads
NextLive ==
    \/ Mount
    \/ TimerFires
    \/ \E v \in IntervalOptions : SetRefreshIntervalSec(v)
    \/ RefreshImages
    \/ GatewaySettles
    \/ \E img \in Deletable : \E answer \in BOOLEAN : HandleDelete(img, answer)
    \/ DismissAlert
    \/ AdvanceClock

SpecLive ==
    /\ Init /\ [][NextLive]_vars
    /\ WF_vars(Mount) /\ SF_vars(TimerFires) /\ WF_vars(GatewaySettles)

----------------------------------------------------------------------------
(* The bulk delete of the later revisions.  Neither revision of App.jsx has  *)
(* it: the operation, its "deleting" state and the guards of the timer       *)
(* callback and of the refresh action are taken from sections 4.1 and 4.3 of *)
(* the specification and added to the component as the source has it.       *)

\* the fixed batch size
BatchSize == 5

\* the full-viewport progress indicator blocks all input while deleting
Interactive == ~bulkDelete.deleting

\* the timer callback with the flag checked inside it
ScheduledSync_NoGuard(t) == Tick(t)

\* the timer callback: a scheduled sync is skipped while deleting
ScheduledSync(t) ==
    IF bulkDelete.deleting
    THEN Running /\ t \in timers /\ UNCHANGED vars
    ELSE Tick(t)

\* the manual refresh: suppressed while deleting
ManualRefresh == Interactive /\ RefreshImages

\* the current filtered set of .jpg/.jpeg records
Eligible ==
    LET IsJpegRecord(img) == IsJpegKey([Key |-> img.key])
    IN  SelectSeq(displayImages, IsJpegRecord)

\* the "delete all" action and the answer to its confirmation
HandleDeleteAll(answer) ==
    /\ Running
    /\ Screen = "gallery"
    /\ Interactive
    /\ Eligible # <<>>
    /\ IF answer
       THEN /\ bulkDelete' = [deleting |-> TRUE, queue |-> Eligible, deleted |-> 0]
            /\ UNCHANGED <<rev, mounted, images, selectedImage, viewVars, isLoading,
                           error, stats, refreshIntervalSec, timers, cycles, deletes,
                           alertMsg, now>>
       ELSE UNCHANGED vars

\* the delete calls of the next batch settle, ok of them with success
DeleteBatch(ok) ==
    /\ Running
    /\ bulkDelete.deleting
    /\ bulkDelete.queue # <<>>
    /\ LET n == IF Len(bulkDelete.queue) < BatchSize THEN Len(bulkDelete.queue)
                 ELSE BatchSize
       IN  /\ ok \in 0..n
           /\ bulkDelete' = [deleting |-> TRUE,
                             queue |-> SubSeq(bulkDelete.queue, n + 1, Len(bulkDelete.queue)),
                             deleted |-> bulkDelete.deleted + ok]
    /\ UNCHANGED <<rev, mounted, images, selectedImage, viewVars, isLoading, error,
                   stats, refreshIntervalSec, timers, cycles, deletes, alertMsg, now>>

\* completion: the count is reported, the deleting state is left and a full
\* sync cycle is forced
FinishDeleteAll ==
    /\ Running
    /\ bulkDelete.deleting
    /\ bulkDelete.queue = <<>>
    /\ bulkDelete' = NoBulk
    /\ LoadImagesFromS3(isLoading)
    /\ UNCHANGED <<rev, mounted, images, selectedImage, viewVars, stats,
                   refreshIntervalSec, timers, deletes, alertMsg, now>>

\* the listing or the signing of a sync cycle settles
CycleSettles ==
    \/ \E c \in BagToSet(cycles) : \E r \in Responses : ListObjectsV2(c, r)
    \/ \E c \in BagToSet(cycles) : SignAllOk(c)
    \/ \E c \in BagToSet(cycles) : ListFail(c)
    \/ \E c \in BagToSet(cycles) : \E i \in DOMAIN c.items : SignFail(c, i)

NextBulk ==
    \/ Mount
    \/ \E t \in timers : ScheduledSync(t)
    \/ ManualRefresh
    \/ \E v \in IntervalOptions : Interactive /\ SetRefreshIntervalSec(v)
    \/ CycleSettles
    \/ \E answer \in BOOLEAN : HandleDeleteAll(answer)
    \/ \E ok \in 0..BatchSize : DeleteBatch(ok)
    \/ FinishDeleteAll
    \/ AdvanceClock

SpecBulk == Init /\ [][NextBulk]_vars

----------------------------------------------------------------------------
(* The View Projector on its own: the gallery is on screen with a published *)
(* collection, and the user changes the sort and filter selection           *)

KeyV1 == <<"A", ".", "j", "p", "g">>
KeyV2 == <<"a", ".", "j", "p", "g">>
KeyV3 == <<"c", ".", "j", "p", "e", "g">>
KeyV4 == <<"i", "m", "g", "/", "b", ".", "j", "p", "g">>
KeyV5 == <<"o", "l", "d", "/", "a", ".", "j", "p", "g">>

\* written one hour before the start, at local midnight, at 23:00 of the day
\* before, half an hour before the start, 26 hours before the start
ViewCatalogue == <<
    [Key |-> KeyV1, LastModified |-> ClockStart - HourMs, Size |-> 100],
    [Key |-> KeyV2, LastModified |-> DayMs, Size |-> 100],
    [Key |-> KeyV3, LastModified |-> DayMs - HourMs, Size |-> 100],
    [Key |-> KeyV4, LastModified |-> ClockStart - ClockStep, Size |-> 100],
    [Key |-> KeyV5, LastModified |-> 0, Size |-> 100]>>

InitView ==
    /\ rev \in {1, 2}
    /\ mounted = TRUE
    /\ now = ClockStart
    /\ \E l \in Listings(ViewCatalogue) :
           images = NewestFirst(MapRecords(SelectSeq(l, IsJpegKey)))
    /\ stats = ComputeStats(images, now)
    /\ selectedImage = NoImage
    /\ sortBy = "newest"
    /\ filterDate = "all"
    /\ isLoading = FALSE
    /\ error = NoError
    /\ refreshIntervalSec = IF rev = 2 THEN 30 ELSE MountTimerMs \div 1000
    /\ timers = {refreshIntervalSec * 1000}
    /\ cycles = EmptyBag
    /\ deletes = EmptyBag
    /\ alertMsg = NoAlert
    /\ bulkDelete = NoBulk

NextView ==
    \/ \E v \in SortOptions : SetSortBy(v)
    \/ \E v \in FilterOptions : SetFilterDate(v)
    \/ \E f \in StatTiles : HandleStatClick(f)
    \/ AdvanceClock

SpecView == InitView /\ [][NextView]_vars

----------------------------------------------------------------------------
(* Syncs and deletes over a larger gallery: the collection published from   *)
(* the first four objects of the view catalogue is on screen, the bucket    *)
(* then holds the objects of the catalogue, and the user deletes records    *)
(* while the timer starts sync cycles                                       *)

InitGallery ==
    /\ InitView
    /\ images = NewestFirst(MapRecords(SubSeq(ViewCatalogue, 1, 4)))

NextGallery ==
    \/ TimerFires
    \/ CycleSettles
    \/ \E img \in Deletable : \E answer \in BOOLEAN : HandleDelete(img, answer)
    \/ \E d \in BagToSet(deletes) : DeleteOk(d)
    \/ \E d \in BagToSet(deletes) : DeleteFail(d)
    \/ DismissAlert

SpecGallery == InitGallery /\ [][NextGallery]_vars

----------------------------------------------------------------------------
(* Properties *)

Ids(imgs) == {imgs[i].id : i \in DOMAIN imgs}

\* a key that, in lower case, is some prefix followed by .jpg or .jpeg
HasJpegSuffix(key) ==
    \E n \in 0..Len(key) : SubSeq(ToLowerCase(key), n + 1, Len(key)) \in {DotJpg, DotJpeg}

\* the keys of the catalogue with such a suffix
JpegKeys == {k \in {Catalogue[i].Key : i \in DOMAIN Catalogue} : HasJpegSuffix(k)}

JpegKeysOf(contents) == {contents[i].Key : i \in DOMAIN contents} \cap JpegKeys

\* a step in which the sync cycle c fails, in its listing or in a signing call
SyncFails(c) == ListFail(c) \/ \E i \in DOMAIN c.items : SignFail(c, i)

\* the listings in which the extension filter keeps no object
EmptyListings == {l \in AllListings : JpegKeysOf(l) = {}}

\* a step in which the listing of cycle c resolves with nothing to sign
ListsNothing(c) == c.phase = "listing" /\ \E l \in EmptyListings : ListResponse(c, l)

\* a step in which the listing of cycle c resolves and the cycle goes on to
\* sign its batch
GoesOnToSign(c) ==
    /\ c.phase = "listing"
    /\ \E n \in BagToSet(cycles') :
           /\ n.phase = "signing"
           /\ cycles' = (cycles (-) SetToBag({c})) (+) SetToBag({n})

\* a step in which the sync cycle c publishes a collection
SyncSucceeds(c) == SignAllOk(c) \/ ListsNothing(c)

\* a step that starts a sync cycle
SyncStarts == BagCardinality(cycles') = BagCardinality(cycles) + 1

\* C1: a step in which a sync cycle fails, in the listing call or in any one
\* signing call of its batch, leaves the collection and the stats as they were
\* and sets the error state; and a cycle that goes on from its listing to the
\* signing of its batch has published nothing, so that no part of a batch is
\* ever in the collection when the cycle fails.
C1_FailedSyncPublishesNothing ==
    [][\A c \in BagToSet(cycles) :
           /\ SyncFails(c) =>
                  images' = images /\ stats' = stats /\ error' # NoError
           /\ GoesOnToSign(c) => images' = images /\ stats' = stats]_vars

\* a sync has failed while a collection published earlier is on screen
C1_Witness == error # NoError /\ Len(images) = 2 /\ stats.total = 2

\* C2: when the delete of a record X of the collection completes with success,
\* the new collection does not contain X, stats.total is one less than it was
\* just before, and no sync cycle is started.
C2_DeleteRemovesExactlyOne ==
    [][\A d \in BagToSet(deletes) :
           (DeleteOk(d) /\ d.img.id \in Ids(images)) =>
               /\ d.img.id \notin Ids(images')
               /\ stats'.total = stats.total - 1
               /\ cycles' = cycles]_vars

C4_OneTimerOfCurrentInterval ==
    /\ [](/\ Cardinality(timers) <= 1
          /\ (mounted /\ rev = 2) =>
                 timers = (IF refreshIntervalSec = 0 THEN {}
                           ELSE {refreshIntervalSec * 1000}))
    /\ [][\A t \in timers : (Tick(t) /\ rev = 2) => t = refreshIntervalSec' * 1000]_vars

\* the interval was changed from 30 s to 5 s, and the 5 s timer is the only
\* one installed while two cycles await the gateway
C4_Witness ==
    rev = 2 /\ refreshIntervalSec = 5 /\ timers = {5000} /\ BagCardinality(cycles) = 2

\* C5: the batch a cycle goes on to sign holds exactly the listed objects whose
\* key in lower case ends in .jpg or .jpeg, and the collection it publishes
\* holds one record for each object of that batch and no other.
C5_ExtensionFilter ==
    [][\A c \in BagToSet(cycles) :
           /\ \A l \in AllListings :
                  (c.phase = "listing" /\ cycles' # cycles /\ ListResponse(c, l)) =>
                      IF JpegKeysOf(l) = {} THEN images' = <<>>
                      ELSE \E n \in BagToSet(cycles') :
                               /\ n.phase = "signing"
                               /\ {n.items[i].Key : i \in DOMAIN n.items} = JpegKeysOf(l)
                               /\ Len(n.items) = Cardinality(JpegKeysOf(l))
                               /\ cycles' = (cycles (-) SetToBag({c})) (+) SetToBag({n})
           /\ SignAllOk(c) =>
                  /\ Ids(images') = {c.items[i].Key : i \in DOMAIN c.items}
                  /\ Len(images') = Len(c.items)]_vars

\* a sync over a listing with a.JPG and cam/c.jpeg has published both
C5_Witness == Ids(images) = {KeyA, KeyC} /\ ~isLoading

\* C6: the step in which a sync cycle receives a listing that is empty, or
\* that holds no object the extension filter keeps, completes the cycle with an
\* empty collection and zero stats and does not set the error state.
C6_EmptyListing ==
    [][\A c \in BagToSet(cycles) :
           ListsNothing(c) =>
               /\ images' = <<>>
               /\ stats' = [lastHour |-> 0, today |-> 0, total |-> 0]
               /\ error' = error
               /\ BagCardinality(cycles') = BagCardinality(cycles) - 1]_vars


\* a sync has completed over a listing with nothing to show, without an error
C6_Witness ==
    /\ rev = 2 /\ mounted /\ ~isLoading /\ InFlight = 0
    /\ images = <<>> /\ stats = ZeroStats /\ error = NoError

\* the stats as the specification defines them over the collection list at
\* the instant t
StatsAsSpecified(list, t) ==
    LET WithinHour(img) == t - img.timestamp < 3600000
        SinceMidnight(img) == img.timestamp >= TodayStart(t)
    IN  [lastHour |-> Count(list, WithinHour),
         today    |-> Count(list, SinceMidnight),
         total    |-> Len(list)]

\* C7: whenever a successful sync or a successful delete recomputes the stats
\* over the collection it writes, lastHour is the number of its records less
\* than 3,600,000 ms old, today the number of its records stamped at or after
\* local midnight of the current day, and total its size.
C7_StatsAsSpecified ==
    [][((\E c \in BagToSet(cycles) : SyncSucceeds(c))
            \/ (\E d \in BagToSet(deletes) : DeleteOk(d))) =>
           stats' = StatsAsSpecified(images', now)]_vars

\* the window the specification defines for each filter of the stat tiles
InWindow(f, t, img) ==
    CASE f = "lastHour" -> t - img.timestamp < 3600000
      [] f = "today" -> img.timestamp >= TodayStart(t)
      [] OTHER -> TRUE

\* the order the specification defines for each sort selection
InOrder(by, a, b) ==
    CASE by = "newest" -> a.timestamp >= b.timestamp
      [] by = "oldest" -> a.timestamp <= b.timestamp
      [] OTHER -> ~LocaleAfter(a.name, b.name)

\* C8: the displayed sequence holds exactly the records of the collection in
\* the window of the selected filter (last hour, since local midnight, all),
\* in the order of the selected sort; so with a stat tile's filter selected
\* the number of displayed records is the count the tile's statistic is
\* defined by.
C8_DisplayIsFilterThenSort ==
    filterDate \in StatTiles =>
        LET InSelected(img) == InWindow(filterDate, now, img)
            want == SelectSeq(images, InSelected)
        IN  /\ Range(displayImages) = Range(want)
            /\ Len(displayImages) = Len(want)
            /\ \A i \in 1..(Len(displayImages) - 1) :
                   InOrder(sortBy, displayImages[i], displayImages[i + 1])
            /\ Len(displayImages) = StatsAsSpecified(images, now)[
                   IF filterDate = "all" THEN "total" ELSE filterDate]

\* C9: a step in which the gateway's delete call fails leaves the collection,
\* the stats, the selected record and the global error state as they were and
\* raises an alert.
C9_FailedDeleteChangesNothing ==
    [][\A d \in BagToSet(deletes) :
           DeleteFail(d) =>
               /\ images' = images
               /\ stats' = stats
               /\ selectedImage' = selectedImage
               /\ error' = error
               /\ alertMsg' # NoAlert]_vars

\* a delete of the selected record has failed: the alert is up, the record is
\* still in the collection and still selected, and there is no error state
C9_Witness ==
    /\ alertMsg = DeleteAlertMsg
    /\ error = NoError
    /\ selectedImage.id \in Ids(images)
    /\ stats.total = Len(images)
    /\ deletes = EmptyBag

\* C10: after the delete of record X completes with success the selected
\* record is not X, and a selection of another record is left as it was.
C10_DeletedRecordNotSelected ==
    [][\A d \in BagToSet(deletes) :
           DeleteOk(d) =>
               /\ selectedImage'.id # d.img.id
               /\ selectedImage.id # d.img.id => selectedImage' = selectedImage]_vars

\* a step that sends a delete request to the gateway
DeleteSent == BagCardinality(deletes') > BagCardinality(deletes)

\* C11: every delete request awaiting the gateway was sent by a delete action
\* whose confirmation the user answered with yes, a step sends a request only
\* when it is such an action, and a delete action whose confirmation is
\* declined sends nothing and leaves the collection, the stats, the selection
\* and the error state as they were.
C11_ConfirmationGate ==
    /\ [](\A d \in BagToSet(deletes) : d.confirmed)
    /\ [][/\ DeleteSent => \E img \in Deletable : HandleDelete(img, TRUE)
          /\ \A img \in Deletable :
                 HandleDelete(img, FALSE) =>
                     /\ deletes' = deletes
                     /\ images' = images
                     /\ stats' = stats
                     /\ selectedImage' = selectedImage
                     /\ error' = error]_vars

\* a confirmed delete of a record of the collection awaits the gateway
C11_Witness ==
    /\ rev = 1
    /\ \E d \in BagToSet(deletes) : d.confirmed /\ d.img.id \in Ids(images)

\* C12: the mount effect starts a sync cycle, every tick of the installed
\* timer starts one whether or not the error state is set, and the schedule
\* goes on for ever: unless the interval is switched off again and again or an
\* alert() dialog is left open for ever, ticks of the timer start a sync cycle
\* again and again, after a failed cycle as after a successful one, with no
\* action of the user.
C12_TimerKeepsSyncing ==
    /\ [][(Mount \/ TimerFires) => (SyncStarts /\ error' = NoError)]_vars
    /\ \/ []<>(mounted /\ timers = {})
       \/ <>[](alertMsg # NoAlert)
       \/ []<><<TimerFires /\ SyncStarts>>_vars

\* a cycle has failed and nothing awaits the gateway: the error screen is up
\* and the installed timer is what starts the next cycle
C12_Witness ==
    /\ mounted /\ timers # {} /\ alertMsg = NoAlert
    /\ Screen = "error" /\ InFlight = 0

\* C13: a step in which the listing call of a cycle resolves with a truncated
\* page publishes nothing and signs nothing from that page alone: the cycle
\* goes on to request the continuation pages.
C13_TruncatedListingIsContinued ==
    [][\A c \in BagToSet(cycles) : \A l \in AllListings :
           (/\ c.phase = "listing"
            /\ cycles' # cycles
            /\ ListObjectsV2(c, [Contents |-> l, IsTruncated |-> TRUE])) =>
               /\ images' = images
               /\ stats' = stats
               /\ ~GoesOnToSign(c)]_vars

\* C14: while a bulk delete is running no step starts a sync cycle: a tick of
\* the timer in that window is skipped and leaves the state as it was, and no
\* manual refresh takes place; the cycle the completion of the bulk delete
\* forces is started by the step that leaves the deleting state.
C14_NoSyncWhileBulkDeleting ==
    [][/\ (bulkDelete.deleting /\ bulkDelete'.deleting) => ~SyncStarts
       /\ \A t \in timers : (bulkDelete.deleting /\ ScheduledSync(t)) => UNCHANGED vars
       /\ bulkDelete.deleting => ~ManualRefresh]_vars

\* a bulk delete is running while the timer is installed, nothing blocks a
\* tick and a cycle started before the bulk delete has completed
C14_Witness ==
    /\ bulkDelete.deleting /\ bulkDelete.queue = <<>> /\ bulkDelete.deleted = 1
    /\ mounted /\ timers # {} /\ alertMsg = NoAlert /\ InFlight = 0

\* C15: for each sort selection the sorted collection holds the records of
\* the collection in the order of the selection (timestamp descending,
\* timestamp ascending, name ascending by locale comparison), sorting the
\* result again gives the same sequence, and a change of the selection leaves
\* the collection itself as it was.
C15_SortOrderedAndIdempotent ==
    /\ [](LET sorted == sortImages(rev, sortBy, images)
          IN  /\ Range(sorted) = Range(images)
              /\ Len(sorted) = Len(images)
              /\ \A i \in 1..(Len(sorted) - 1) : InOrder(sortBy, sorted[i], sorted[i + 1])
              /\ sortImages(rev, sortBy, sorted) = sorted)
    /\ [][\A v \in SortOptions : SetSortBy(v) => images' = images]_vars

\* a step in which a sync cycle completes
CycleCompletes == BagCardinality(cycles') < BagCardinality(cycles)

\* C16: the collection changes only when a sync cycle publishes and when a
\* delete completes with success, and the completion of the delete of X
\* leaves exactly the collection of just before without X: it puts back no
\* record an earlier delete removed and does not bring back the batch of
\* before the last publication.
C16_DeletePatchesCurrentCollection ==
    [][\/ images' = images
       \/ CycleCompletes
       \/ \E d \in BagToSet(deletes) :
              DeleteOk(d) /\ images' = WithoutImage(images, d.img)]_vars

\* the batches a cycle can take from one listing response
Batches == {Retained[l] : l \in AllListings}

\* C17: the batch a cycle signs is what the extension filter keeps of one
\* listing response; the step in which the cycle publishes writes one record
\* for each object of that batch and no other record, whatever the collection
\* held before, and writes the stats computed over those records; and the
\* step in which the listing of a cycle settles takes no batch of another
\* cycle away.
C17_PublishesOneSnapshot ==
    /\ [](\A c \in BagToSet(cycles) : c.phase = "signing" => c.items \in Batches)
    /\ [][\A c \in BagToSet(cycles) :
              /\ SignAllOk(c) =>
                     /\ Len(images') = Len(c.items)
                     /\ \A i \in DOMAIN c.items :
                            \E j \in DOMAIN images' : images'[j] = ImageRecord(c.items[i])
                     /\ stats' = ComputeStats(images', now)
                     /\ stats'.total = Len(c.items)
                     /\ cycles' = cycles (-) SetToBag({c})
              /\ (c.phase = "listing" /\ CopiesIn(c, cycles') < CopiesIn(c, cycles)) =>
                     \A o \in BagToSet(cycles) :
                         o.phase = "signing" => CopiesIn(o, cycles') >= CopiesIn(o, cycles)]_vars

\* two cycles overlap: one has published its batch of two records while the
\* other is signing a batch of one
C17_Witness ==
    /\ Len(images) = 2 /\ ~isLoading
    /\ \E c \in BagToSet(cycles) : c.phase = "signing" /\ Len(c.items) = 1

\* C18: at most one sync cycle awaits the gateway at any time.
C18_AtMostOneCycleInFlight == BagCardinality(cycles) <= 1

\* C19: stats.total is the number of records of the collection.
C19_TotalIsCollectionSize == stats.total = Len(images)

\* a sync has published a.JPG alone while the delete of a record awaits the
\* gateway with the collection of four records its handler was created with
C19_Witness ==
    /\ Ids(images) = {KeyA} /\ stats.total = 1
    /\ \E d \in BagToSet(deletes) : Len(d.images) = 4

\* C20: the collection is in descending order of timestamp.
C20_CollectionNewestFirst ==
    \A i \in 1..(Len(images) - 1) : images[i].timestamp >= images[i + 1].timestamp

\* a.jpg, the third of four records, was deleted: the three that remain are
\* in the order they had, img/b.jpg (01:30), A.jpg (01:00), c.jpeg (23:00)
C20_Witness ==
    /\ Len(images) = 3
    /\ images[1].id = KeyV4 /\ images[2].id = KeyV1 /\ images[3].id = KeyV3
    /\ deletes = EmptyBag

\* C21: every step in which a sync cycle ends, by publishing, by the return
\* on an empty listing or by failing, leaves the loading flag cleared; so once
\* the component is mounted, whenever no sync cycle awaits the gateway the
\* flag is cleared: the loading view is not on screen and the refresh button
\* is enabled.
C21_LoadingClearedOnEveryExit ==
    /\ []((mounted /\ cycles = EmptyBag) => (~isLoading /\ Screen # "loading"))
    /\ [][CycleCompletes => ~isLoading']_vars

\* after a successful publication a later cycle has failed and none is in
\* flight: the flag is cleared with the error state set
C21_Witness ==
    /\ mounted /\ cycles = EmptyBag /\ ~isLoading
    /\ error # NoError /\ images # <<>>

====
